---- MODULE Spec2Model ----
(***************************************************************************)
(* The HTTP-to-Slack bridge of app.js: five express handlers, each a       *)
(* straight-line async function calling the Slack Web API.  One action is  *)
(* one synchronous segment of a handler, from one await (or the entry) to  *)
(* the next await (or the response).  The Slack side is the environment:   *)
(* every upstream call either returns a value or throws.                   *)
(***************************************************************************)
EXTENDS Integers, Sequences, FiniteSets, TLC

\* Number of requests that can be in flight at once.
NumReqs == 2
\* Longest channel listing Slack returns in the model.
MaxChannels == 1
\* Longest message page conversations.history returns in the model.
MaxMessages == 1

Reqs == 1..NumReqs

(***************************************************************************)
(* JavaScript values.  Strings are sequences of one-character strings so   *)
(* that replace(), match() and parseInt() can be computed on them.         *)
(***************************************************************************)
Undefined == [t |-> "undefined"]
NaN == [t |-> "NaN"]
Num(n) == [t |-> "number", v |-> n]
Str(s) == [t |-> "string", v |-> s]
Arr(a) == [t |-> "array", v |-> a]
Bool(b) == [t |-> "boolean", v |-> b]
\* A parsed JSON object: o is the record of its own properties.
Obj(o) == [t |-> "object", v |-> o]

IsObject(x) == x.t = "object"

\* x.f, read from a value that is not undefined: an own property of an
\* object; undefined for a property the object lacks and for the properties
\* the handlers read (text, channel, ...) of a string, number, boolean or
\* array, none of which has them.
Get(x, f) == IF IsObject(x) /\ f \in DOMAIN x.v THEN x.v[f] ELSE Undefined

\* ToBoolean: undefined, 0, NaN and "" are falsy; arrays and objects are
\* truthy.
Truthy(x) ==
    CASE x.t = "undefined" -> FALSE
      [] x.t = "NaN" -> FALSE
      [] x.t = "number" -> x.v # 0
      [] x.t = "string" -> x.v # <<>>
      [] x.t = "boolean" -> x.v
      [] OTHER -> TRUE

\* a || b
Or(a, b) == IF Truthy(a) THEN a ELSE b

IsArray(x) == x.t = "array"

Digits == <<"0", "1", "2", "3", "4", "5", "6", "7", "8", "9">>
IsDigit(c) == \E i \in 1..10 : Digits[i] = c
DigitVal(c) == (CHOOSE i \in 1..10 : Digits[i] = c) - 1

\* The white space parseInt skips (StrWhiteSpaceChar): tab, vertical tab
\* U+000B, form feed, space, no-break space U+00A0, U+FEFF, the line
\* terminators line feed, carriage return, U+2028 and U+2029, and the other
\* space separators U+1680, U+2000 to U+200A, U+202F, U+205F and U+3000.
\* A character is a string of one character; the characters this module
\* cannot write as such (every one but the printable ASCII characters and
\* tab, line feed, carriage return and form feed) are written as their
\* escapes instead, "\\u00A0" for U+00A0, each one element of a sequence.
WhiteSpace ==
    {" ", "\t", "\n", "\r", "\f",
     "\\u000B", "\\u00A0", "\\uFEFF", "\\u1680", "\\u2000",
     "\\u2001", "\\u2002", "\\u2003", "\\u2004", "\\u2005",
     "\\u2006", "\\u2007", "\\u2008", "\\u2009", "\\u200A",
     "\\u2028", "\\u2029", "\\u202F", "\\u205F", "\\u3000"}

RECURSIVE SkipSpaces(_)
SkipSpaces(s) ==
    IF s # <<>> /\ Head(s) \in WhiteSpace THEN SkipSpaces(Tail(s)) ELSE s

HexDigits == <<"0", "1", "2", "3", "4", "5", "6", "7", "8", "9",
               "a", "b", "c", "d", "e", "f">>
UpperHex == <<"0", "1", "2", "3", "4", "5", "6", "7", "8", "9",
              "A", "B", "C", "D", "E", "F">>
IsHexDigit(c) == \E i \in 1..16 : HexDigits[i] = c \/ UpperHex[i] = c
HexVal(c) == (CHOOSE i \in 1..16 : HexDigits[i] = c \/ UpperHex[i] = c) - 1

\* Value of the longest all-hex-digit prefix of s, given the value acc so far.
RECURSIVE HexValue(_, _)
HexValue(s, acc) ==
    IF s # <<>> /\ IsHexDigit(Head(s))
    THEN HexValue(Tail(s), 16 * acc + HexVal(Head(s)))
    ELSE acc

\* Value of the longest all-digit prefix of s, given the value acc so far.
RECURSIVE DigitsValue(_, _)
DigitsValue(s, acc) ==
    IF s # <<>> /\ IsDigit(Head(s))
    THEN DigitsValue(Tail(s), 10 * acc + DigitVal(Head(s)))
    ELSE acc

\* parseInt of the characters s, no radix given: leading white space, an
\* optional sign, then hexadecimal digits after 0x or 0X, decimal digits
\* otherwise; NaN when no digit follows.
ParseChars(s) ==
    LET t == SkipSpaces(s)
        neg == t # <<>> /\ Head(t) = "-"
        u == IF t # <<>> /\ Head(t) \in {"-", "+"} THEN Tail(t) ELSE t
        hex == Len(u) >= 2 /\ u[1] = "0" /\ u[2] \in {"x", "X"}
        h == IF hex THEN Tail(Tail(u)) ELSE u
        n == IF hex THEN HexValue(h, 0) ELSE DigitsValue(h, 0)
    IN  IF h = <<>> \/ (hex /\ ~IsHexDigit(Head(h))) \/ (~hex /\ ~IsDigit(Head(h)))
        THEN NaN
        ELSE Num(IF neg THEN 0 - n ELSE n)

\* The decimal digits of the natural number n.
RECURSIVE NatChars(_)
NatChars(n) ==
    IF n < 10 THEN <<Digits[n + 1]>>
    ELSE NatChars(n \div 10) \o <<Digits[(n % 10) + 1]>>

\* ToString(x) throws a TypeError: x is an object whose own toString
\* property hides Object.prototype.toString (a JSON value is never callable,
\* and Object.prototype.valueOf returns the object itself), or an array
\* holding such an object, which join() converts.
RECURSIVE ToStrThrows(_)
ToStrThrows(x) ==
    IF IsObject(x) THEN "toString" \in DOMAIN x.v
    ELSE IF x.t = "array" THEN \E i \in 1..Len(x.v) : ToStrThrows(x.v[i])
    ELSE FALSE

\* ToStr(x), as parseInt applies it to an argument that converts: an
\* integer prints as its digits, an array as its elements joined by commas
\* (undefined elements as nothing), a plain object as [object Object].
RECURSIVE ToStr(_)
RECURSIVE ArrayJoin(_)
ToStr(x) ==
    IF IsObject(x)
    THEN <<"[", "o", "b", "j", "e", "c", "t", " ", "O", "b", "j", "e", "c", "t", "]">>
    ELSE CASE x.t = "string" -> x.v
           [] x.t = "number" ->
                IF x.v < 0 THEN <<"-">> \o NatChars(0 - x.v) ELSE NatChars(x.v)
           [] x.t = "NaN" -> <<"N", "a", "N">>
           [] x.t = "undefined" -> <<"u", "n", "d", "e", "f", "i", "n", "e", "d">>
           [] x.t = "boolean" ->
                IF x.v THEN <<"t", "r", "u", "e">> ELSE <<"f", "a", "l", "s", "e">>
           [] x.t = "array" -> ArrayJoin(x.v)
ArrayJoin(a) ==
    IF a = <<>> THEN <<>>
    ELSE LET e == a[Len(a)]
             last == IF e.t = "undefined" THEN <<>>
                     ELSE ToStr(e)
         IN  IF Len(a) = 1 THEN last
             ELSE ArrayJoin(SubSeq(a, 1, Len(a) - 1)) \o <<",">> \o last

\* parseInt(x): the argument is converted to a string, which may throw,
\* and parsed.
ParseIntThrows(x) == ToStrThrows(x)
ParseInt(x) == ParseChars(ToStr(x))

\* Math.min(x, n) for a number-or-NaN x.
MathMin(x, n) ==
    IF x.t = "NaN" THEN NaN ELSE Num(IF x.v < n THEN x.v ELSE n)

\* s.replace('#', ''): s without its first '#', wherever it stands.
RECURSIVE DropFirstHash(_)
DropFirstHash(s) ==
    IF s = <<>> THEN <<>>
    ELSE IF Head(s) = "#" THEN Tail(s)
    ELSE <<Head(s)>> \o DropFirstHash(Tail(s))

\* channel.replace('#', '') of a string value.
ReplaceNothing(x) == x
Replace(x) == Str(DropFirstHash(x.v))

\* channelId.match(/^[CGDU]/)
IdShapedAnyToken(x) == x.v # <<>>
IdShaped(x) == x.v # <<>> /\ x.v[1] \in {"C", "G", "D", "U"}

\* channels.find(ch => ch.name === name): the first match, else undefined.
FindById(chs, name) ==
    IF \E i \in 1..Len(chs) : chs[i].id = name
    THEN chs[CHOOSE i \in 1..Len(chs) : chs[i].id = name]
    ELSE Undefined
Find(chs, name) ==
    IF \E i \in 1..Len(chs) : chs[i].name = name
    THEN chs[CHOOSE i \in 1..Len(chs) :
                /\ chs[i].name = name
                /\ \A j \in 1..(i - 1) : chs[j].name # name]
    ELSE Undefined

(***************************************************************************)
(* Errors thrown by the Slack client and by the handlers' own code.        *)
(***************************************************************************)
\* A platform error: data.error carries Slack's error code.
PlatformError(code) ==
    [message |-> <<"An API error occurred: ", code>>,
     data |-> [error |-> Str(<<code>>),
               needed |-> IF code = "missing_scope"
                          THEN Str(<<"channels:join">>) ELSE Undefined]]
\* A request or network error: no data at all.
RequestError == [message |-> <<"A request error occurred">>, data |-> Undefined]
\* channel.replace on a value that is no string.
TypeError == [message |-> <<"channel.replace is not a function">>, data |-> Undefined]

\* error.data?.error
DataError(e) == IF e.data = Undefined THEN Undefined ELSE e.data.error
\* error.data?.needed
DataNeeded(e) == IF e.data = Undefined THEN Undefined ELSE e.data.needed

Code(c) == Str(<<c>>)

(***************************************************************************)
(* State.                                                                  *)
(*   workspace  what Slack's channel listings hold (public and private)    *)
(*   pc         where each request's handler stands                        *)
(*   req        the request being served: endpoint, body, query, env       *)
(*   channelId  get-messages' local channelId (line 62)                    *)
(*   calls      the upstream Slack calls a request made, with outcomes     *)
(*   resps      the HTTP responses written for a request                   *)
(***************************************************************************)
VARIABLES workspace, pc, req, channelId, calls, resps

vars == <<workspace, pc, req, channelId, calls, resps>>

NoReq == [endpoint |-> "none"]

\* One upstream call: the method, its arguments, and what came back.
Returned(method, args, value) ==
    [method |-> method, args |-> args, ok |-> TRUE, value |-> value]
Threw(method, args, error) ==
    [method |-> method, args |-> args, ok |-> FALSE, error |-> error]

\* A literal text of a response body; a template literal is the sequence of
\* its pieces.
Text(s) == <<s>>

\* res.status(s).json(b)
Response(s, b) == [status |-> s, body |-> b]

\* The handler of r made the call c and then wrote the responses ws (a
\* sequence: a handler that fell through its returns would write several)
\* and ended.
CallAndEnd(r, c, ws) ==
    /\ calls' = [calls EXCEPT ![r] = Append(@, c)]
    /\ resps' = [resps EXCEPT ![r] = @ \o ws]
    /\ pc' = [pc EXCEPT ![r] = "done"]
    /\ UNCHANGED <<workspace, req, channelId>>

\* The handler of r made the call c and went on to the await at `next`.
CallAndGo(r, c, next) ==
    /\ calls' = [calls EXCEPT ![r] = Append(@, c)]
    /\ pc' = [pc EXCEPT ![r] = next]
    /\ UNCHANGED <<workspace, req, resps>>

(***************************************************************************)
(* What Slack can answer.                                                  *)
(***************************************************************************)
\* Channel names as Slack gives them: lowercase letters, digits, hyphens and
\* underscores, so no listed name starts with C, G, D or U or holds a '#'.
\* Channel IDs start with C or G.
ChanG == Str(<<"g">>)
ChanP == Str(<<"p">>)
PublicPool == {[id |-> Str(<<"C", "1">>), name |-> ChanG],
               [id |-> Str(<<"C", "2">>), name |-> ChanP]}
PrivatePool == {[id |-> Str(<<"G", "3">>), name |-> ChanG]}

\* Listings of at most MaxChannels channels of a pool; Slack keeps channel
\* names unique within a listing.
Listings(pool) ==
    {s \in UNION {[1..n -> pool] : n \in 0..MaxChannels} :
        \A i, j \in 1..Len(s) : i # j => s[i].name # s[j].name}

Workspaces == [public : Listings(PublicPool), private : Listings(PrivatePool)]

\* conversations.info answers with a channel object or throws.
InfoChannels == {[id |-> Str(<<"C", "9">>), name |-> Str(<<"z">>)]}

ListErrors == {PlatformError("missing_scope"), RequestError}
InfoErrors == {PlatformError("channel_not_found"), RequestError}
JoinErrors == {PlatformError("already_in_channel"), PlatformError("missing_scope"),
               PlatformError("not_in_channel"), PlatformError("channel_not_found"),
               PlatformError("is_archived"), RequestError}
HistoryErrors == {PlatformError("not_in_channel"), PlatformError("channel_not_found"),
                  PlatformError("ratelimited"), RequestError}

\* Messages of a history page.
MessagePool ==
    {[ts |-> Str(<<"2.0">>), user |-> Undefined, username |-> Str(<<"hook">>),
      text |-> Str(<<"yo">>), type |-> Str(<<"message">>), thread_ts |-> Str(<<"2.0">>),
      reply_count |-> Num(2), reactions |-> Undefined]}

HistoryResults ==
    {[messages |-> Undefined, has_more |-> Undefined, response_metadata |-> Undefined]}
    \cup {[messages |-> Arr(m), has_more |-> Bool(TRUE),
           response_metadata |-> [next_cursor |-> Str(<<"n">>)]] :
            m \in UNION {[1..n -> MessagePool] : n \in 0..MaxMessages}}

(***************************************************************************)
(* POST /api/get-messages                                                  *)
(***************************************************************************)
\* let channel = body.channel || req.query.channel
Channel(q) == Or(q.body.channel, q.query.channel)
\* let limit = parseInt(body.limit || req.query.limit || 10)
LimitArg(q) == Or(Or(q.body.limit, q.query.limit), Num(10))
Limit(q) == ParseInt(LimitArg(q))
\* let cursor = body.cursor || req.query.cursor
Cursor(q) == Or(q.body.cursor, q.query.cursor)

GetMessagesMissing ==
    Response(400, [error |-> Text("channel required"),
                   required_fields |-> [channel |-> "string"],
                   optional_fields |->
                       [limit |-> "number (default: 10, max: 100)",
                        cursor |-> "string (for pagination)"]])

\* The info lookup's catch (lines 105-112).
LookupNotFoundAsFailure(id) ==
    Response(500, [error |-> Text("Failed to lookup channel"),
                   details |-> <<"Channel '", id, "' not found">>])
LookupNotFound(id) ==
    Response(404, [error |-> <<"Channel '", id, "' not found">>,
                   details |-> "Use channel ID instead of name",
                   hint |-> "Try using C1234567890 format instead of \"general\"",
                   solution |-> Text("Use /api/list-channels endpoint to get channel IDs")])

\* The lookup's catch (lines 117-123).
LookupFailed(e) ==
    Response(500, [error |-> Text("Failed to lookup channel"), details |-> e.message])

MissingScope(e) ==
    Response(403, [error |-> Text("Bot missing required scope"),
                   needed_scope |-> DataNeeded(e),
                   details |-> "Add \"channels:join\" scope to your bot app",
                   steps |-> <<"1. Go to https://api.slack.com/apps",
                               "2. Select your app",
                               "3. Go to OAuth & Permissions > Scopes",
                               "4. Add \"channels:join\" to Bot Token Scopes",
                               "5. Reinstall/update the bot token",
                               "6. Retry the request">>])

NotInChannel(q, id) ==
    Response(403, [error |-> Text("Bot is not a member of this channel"),
                   details |-> "Add the bot to the channel first. Go to Slack > channel > Add members > search for your bot app",
                   solution |-> <<"Invite the bot to #", Channel(q),
                                  " using Slack UI, then try again">>,
                   channel_id |-> id])

ChannelNotFound ==
    Response(404, [error |-> Text("Channel not found"),
                   details |-> "Use channel ID instead of name",
                   hint |-> "Try /api/list-channels to get all available channels with their IDs"])

GetMessagesFailed(e) ==
    Response(500, [error |-> e.message, error_type |-> DataError(e),
                   details |-> "Failed to retrieve messages from Slack"])

\* The outer catch (lines 189-215): the responses it writes for the error e.
GetMessagesCatch(q, id, e) ==
    IF DataError(e) = Code("not_in_channel") THEN <<NotInChannel(q, id)>>
    ELSE IF DataError(e) = Code("channel_not_found") THEN <<ChannelNotFound>>
    ELSE <<GetMessagesFailed(e)>>

\* The join's catch (lines 132-155): "respond" (403 written, handler returns),
\* "throw" (rethrown to the outer catch) or "continue" (on to the history).
JoinCatchRethrowsUnknown(e) ==
    IF DataError(e) = Code("missing_scope") THEN "respond"
    ELSE IF DataError(e) = Code("already_in_channel") THEN "continue"
    ELSE "throw"
JoinCatchSwallowsNotFound(e) ==
    IF DataError(e) = Code("missing_scope") THEN "respond"
    ELSE IF DataError(e) = Code("not_in_channel") THEN "throw"
    ELSE "continue"
JoinCatch(e) ==
    IF DataError(e) = Code("missing_scope") THEN "respond"
    ELSE IF DataError(e) \in {Code("not_in_channel"), Code("channel_not_found")}
    THEN "throw"
    ELSE "continue"

\* queryParams (lines 157-162)
QueryParams(q, id) ==
    [channel |-> id, limit |-> MathMin(Limit(q), 100),
     cursor |-> IF Truthy(Cursor(q)) THEN Cursor(q) ELSE Undefined]

\* formattedMessages (lines 168-178)
Format(msg) ==
    [timestamp |-> msg.ts,
     user |-> Or(msg.user, Str(<<"bot">>)),
     username |-> msg.username,
     text |-> msg.text,
     type |-> msg.type,
     thread_ts |-> msg.thread_ts,
     is_thread_parent |-> Bool(Truthy(msg.reply_count)),
     reply_count |-> Or(msg.reply_count, Num(0)),
     reactions |-> Or(msg.reactions, Arr(<<>>))]

FormattedMessages(result) ==
    LET ms == IF Truthy(result.messages) THEN result.messages.v ELSE <<>>
    IN  [i \in 1..Len(ms) |-> Format(ms[i])]

\* The 200 response (lines 180-188).
GetMessagesOk(q, id, result) ==
    Response(200, [success |-> TRUE,
                   channel |-> Channel(q),
                   channel_id |-> id,
                   message_count |-> Len(FormattedMessages(result)),
                   messages |-> FormattedMessages(result),
                   has_more |-> Or(result.has_more, Bool(FALSE)),
                   next_cursor |-> IF result.response_metadata = Undefined
                                   THEN Undefined
                                   ELSE result.response_metadata.next_cursor])

\* The handler is an async function and line 60 stands before its try: a
\* parseInt that throws rejects the promise the handler returns, and the
\* handler ends having written nothing.  Express 4 drops the rejection, so
\* the request is never answered (and Node 15 or later ends the process on
\* the unhandled rejection); Express 5 hands it to its error handler, which
\* answers 500.  The repository pins neither version.
ExpressError == Response(500, [error |-> Text("Internal Server Error")])
Rejected == {<<>>, <<ExpressError>>}

\* Entry to the first await (lines 58-75): the limit is parsed, then comes
\* the validation, then the '#' is dropped and the token is classified.  A
\* channel that is no string makes replace() throw into the outer catch.
GetMessagesReceive(r, q) ==
    /\ pc[r] = "idle"
    /\ q.endpoint = "get-messages"
    /\ req' = [req EXCEPT ![r] = q]
    /\ calls' = [calls EXCEPT ![r] = <<>>]
    /\ UNCHANGED workspace
    /\ IF ParseIntThrows(LimitArg(q))
       THEN /\ \E out \in Rejected : resps' = [resps EXCEPT ![r] = out]
            /\ pc' = [pc EXCEPT ![r] = "done"]
            /\ channelId' = [channelId EXCEPT ![r] = Undefined]
       ELSE IF ~Truthy(Channel(q))
       THEN /\ resps' = [resps EXCEPT ![r] = <<GetMessagesMissing>>]
            /\ pc' = [pc EXCEPT ![r] = "done"]
            /\ channelId' = [channelId EXCEPT ![r] = Undefined]
       ELSE IF Channel(q).t # "string"
       THEN /\ resps' = [resps EXCEPT ![r] = GetMessagesCatch(q, Undefined, TypeError)]
            /\ pc' = [pc EXCEPT ![r] = "done"]
            /\ channelId' = [channelId EXCEPT ![r] = Undefined]
       ELSE /\ resps' = [resps EXCEPT ![r] = <<>>]
            /\ channelId' = [channelId EXCEPT ![r] = Replace(Channel(q))]
            /\ pc' = [pc EXCEPT ![r] =
                        IF IdShaped(Replace(Channel(q))) THEN "join" ELSE "list_public"]

ListArgs(types) == [types |-> types, limit |-> 200]

\* await conversations.list({types: 'public_channel'}) and the find (79-88).
GetMessagesListPublic(r, slack) ==
    /\ pc[r] = "list_public"
    /\ \/ \E e \in slack.listErrors :
            CallAndEnd(r, Threw("conversations.list", ListArgs("public_channel"), e),
                       <<LookupFailed(e)>>)
       \/ LET found == Find(workspace.public, channelId[r])
              c == Returned("conversations.list", ListArgs("public_channel"),
                            [channels |-> workspace.public])
          IN  IF found # Undefined
              THEN /\ CallAndGo(r, c, "join")
                   /\ channelId' = [channelId EXCEPT ![r] = found.id]
              ELSE /\ CallAndGo(r, c, "list_private")
                   /\ UNCHANGED channelId

\* await conversations.list({types: 'private_channel'}) and the find (89-99).
GetMessagesListPrivate(r, slack) ==
    /\ pc[r] = "list_private"
    /\ \/ \E e \in slack.listErrors :
            CallAndEnd(r, Threw("conversations.list", ListArgs("private_channel"), e),
                       <<LookupFailed(e)>>)
       \/ LET found == Find(workspace.private, channelId[r])
              c == Returned("conversations.list", ListArgs("private_channel"),
                            [channels |-> workspace.private])
          IN  IF found # Undefined
              THEN /\ CallAndGo(r, c, "join")
                   /\ channelId' = [channelId EXCEPT ![r] = found.id]
              ELSE /\ CallAndGo(r, c, "info")
                   /\ UNCHANGED channelId

\* await conversations.info({channel: channelId}) (lines 100-112).
GetMessagesInfo(r, slack) ==
    /\ pc[r] = "info"
    /\ \/ \E e \in slack.infoErrors :
            CallAndEnd(r, Threw("conversations.info", [channel |-> channelId[r]], e),
                       <<LookupNotFound(channelId[r])>>)
       \/ \E ch \in slack.infoChannels :
            /\ CallAndGo(r, Returned("conversations.info", [channel |-> channelId[r]],
                                     [channel |-> ch]), "join")
            /\ channelId' = [channelId EXCEPT ![r] = ch.id]

\* await conversations.join({channel: channelId}) and its catch (126-155).
GetMessagesJoin(r, slack) ==
    /\ pc[r] = "join"
    /\ \/ /\ CallAndGo(r, Returned("conversations.join", [channel |-> channelId[r]],
                                   [ok |-> TRUE]), "history")
          /\ UNCHANGED channelId
       \/ \E e \in slack.joinErrors :
            LET c == Threw("conversations.join", [channel |-> channelId[r]], e)
            IN  CASE JoinCatch(e) = "respond" -> CallAndEnd(r, c, <<MissingScope(e)>>)
                  [] JoinCatch(e) = "throw" ->
                        CallAndEnd(r, c, GetMessagesCatch(req[r], channelId[r], e))
                  [] OTHER -> CallAndGo(r, c, "history") /\ UNCHANGED channelId

\* await conversations.history(queryParams) and the response (157-188).
GetMessagesHistory(r, slack) ==
    /\ pc[r] = "history"
    /\ LET args == QueryParams(req[r], channelId[r])
       IN  \/ \E result \in slack.historyResults :
                CallAndEnd(r, Returned("conversations.history", args, result),
                           <<GetMessagesOk(req[r], channelId[r], result)>>)
           \/ \E e \in slack.historyErrors :
                CallAndEnd(r, Threw("conversations.history", args, e),
                           GetMessagesCatch(req[r], channelId[r], e))

(***************************************************************************)
(* POST /api/send-message                                                  *)
(***************************************************************************)
SendChannel(q) == Or(q.body.channel, q.query.channel)
SendMessage(q) == Or(q.body.message, q.query.message)
ThreadTs(q) == Or(q.body.thread_ts, q.body.thread_timestamp)

SendMissing ==
    Response(400, [error |-> Text("channel and message required"),
                   required_fields |-> [channel |-> "string", message |-> "string"],
                   optional_fields |-> [thread_ts |-> "string", blocks |-> "array",
                                        attachments |-> "array"]])

\* messagePayload (lines 30-37); a key that is not set is undefined.
SendPayload(q) ==
    [channel |-> Replace(SendChannel(q)),
     text |-> SendMessage(q),
     thread_ts |-> IF Truthy(ThreadTs(q)) THEN ThreadTs(q) ELSE Undefined,
     blocks |-> IF Truthy(q.body.blocks) /\ IsArray(q.body.blocks)
                THEN q.body.blocks ELSE Undefined,
     attachments |-> IF Truthy(q.body.attachments) /\ IsArray(q.body.attachments)
                     THEN q.body.attachments ELSE Undefined]

SendOk(q, result) ==
    Response(200, [success |-> TRUE,
                   message |-> <<"Sent to ", SendChannel(q)>>,
                   timestamp |-> result.ts,
                   channel |-> result.channel,
                   thread_ts |-> result.thread_ts])

SendFailed(e) ==
    Response(500, [error |-> e.message,
                   details |-> "Failed to send message to Slack"])

\* chat.postMessage answers with the posted message's coordinates.
PostResults(payload) ==
    {[ts |-> Str(<<"9.0">>), channel |-> payload.channel,
      thread_ts |-> payload.thread_ts]}
PostErrors == {PlatformError("channel_not_found"), RequestError}

\* Entry to the await (lines 15-37).
SendReceive(r, q) ==
    /\ pc[r] = "idle"
    /\ q.endpoint = "send-message"
    /\ req' = [req EXCEPT ![r] = q]
    /\ calls' = [calls EXCEPT ![r] = <<>>]
    /\ UNCHANGED <<workspace, channelId>>
    /\ IF ~Truthy(SendChannel(q)) \/ ~Truthy(SendMessage(q))
       THEN /\ resps' = [resps EXCEPT ![r] = <<SendMissing>>]
            /\ pc' = [pc EXCEPT ![r] = "done"]
       ELSE IF SendChannel(q).t # "string"
       THEN /\ resps' = [resps EXCEPT ![r] = <<SendFailed(TypeError)>>]
            /\ pc' = [pc EXCEPT ![r] = "done"]
       ELSE /\ resps' = [resps EXCEPT ![r] = <<>>]
            /\ pc' = [pc EXCEPT ![r] = "send_post"]

\* await chat.postMessage(messagePayload) and the response (lines 39-54).
SendPost(r, slack) ==
    /\ pc[r] = "send_post"
    /\ LET payload == SendPayload(req[r])
       IN  \/ \E result \in PostResults(payload) :
                CallAndEnd(r, Returned("chat.postMessage", payload, result),
                           <<SendOk(req[r], result)>>)
           \/ \E e \in slack.postErrors :
                CallAndEnd(r, Threw("chat.postMessage", payload, e), <<SendFailed(e)>>)

(***************************************************************************)
(* GET /api/list-channels                                                  *)
(***************************************************************************)
Field(rec, f) == IF f \in DOMAIN rec THEN rec[f] ELSE Undefined

ListAllArgs ==
    [types |-> "public_channel,private_channel", limit |-> 200,
     exclude_archived |-> TRUE]

\* result.channels.map(...) (lines 226-232)
ChannelSummary(ch) ==
    [id |-> ch.id, name |-> ch.name, is_member |-> Field(ch, "is_member"),
     is_private |-> Field(ch, "is_private"), num_members |-> Field(ch, "num_members")]

ListChannelsOk(chs) ==
    Response(200, [success |-> TRUE, channel_count |-> Len(chs),
                   channels |-> [i \in 1..Len(chs) |-> ChannelSummary(chs[i])]])

ListChannelsFailed(e) ==
    Response(500, [error |-> e.message, details |-> "Failed to list channels"])

\* The handler has nothing to do before its await.
ListChannelsReceive(r, q) ==
    /\ pc[r] = "idle"
    /\ q.endpoint = "list-channels"
    /\ req' = [req EXCEPT ![r] = q]
    /\ calls' = [calls EXCEPT ![r] = <<>>]
    /\ resps' = [resps EXCEPT ![r] = <<>>]
    /\ pc' = [pc EXCEPT ![r] = "list_all"]
    /\ UNCHANGED <<workspace, channelId>>

\* await conversations.list(...) and the response (lines 220-245).
ListChannelsList(r, slack) ==
    /\ pc[r] = "list_all"
    /\ \/ CallAndEnd(r, Returned("conversations.list", ListAllArgs,
                                 [channels |-> workspace.public \o workspace.private]),
                     <<ListChannelsOk(workspace.public \o workspace.private)>>)
       \/ \E e \in slack.listErrors :
            CallAndEnd(r, Threw("conversations.list", ListAllArgs, e),
                       <<ListChannelsFailed(e)>>)

(***************************************************************************)
(* GET /api/channel-info                                                   *)
(***************************************************************************)
InfoMissing ==
    Response(400, [error |-> Text("channel parameter required"),
                   example |-> "/api/channel-info?channel=general OR /api/channel-info?channel=C1234567890"])

InfoOk(ch) == Response(200, [success |-> TRUE, channel |-> ch])

InfoNotFound(channel) ==
    Response(404, [error |-> Text("Channel not found"), searched_for |-> channel])

InfoFailed(e) ==
    Response(500, [error |-> e.message, details |-> "Failed to get channel info"])

\* allChannels.channels.find(ch => ch.name === channel || ch.id === channel)
FindNameOrId(chs, channel) ==
    IF \E i \in 1..Len(chs) : chs[i].name = channel \/ chs[i].id = channel
    THEN chs[CHOOSE i \in 1..Len(chs) :
                /\ (chs[i].name = channel \/ chs[i].id = channel)
                /\ \A j \in 1..(i - 1) : chs[j].name # channel /\ chs[j].id # channel]
    ELSE Undefined

InfoListArgs == [types |-> "public_channel,private_channel", limit |-> 200]

\* Entry to the first await (lines 250-257).
ChannelInfoReceive(r, q) ==
    /\ pc[r] = "idle"
    /\ q.endpoint = "channel-info"
    /\ req' = [req EXCEPT ![r] = q]
    /\ calls' = [calls EXCEPT ![r] = <<>>]
    /\ UNCHANGED <<workspace, channelId>>
    /\ IF ~Truthy(q.query.channel)
       THEN /\ resps' = [resps EXCEPT ![r] = <<InfoMissing>>]
            /\ pc' = [pc EXCEPT ![r] = "done"]
       ELSE /\ resps' = [resps EXCEPT ![r] = <<>>]
            /\ pc' = [pc EXCEPT ![r] = "info_info"]

\* await conversations.info({channel}) (lines 259-268).
ChannelInfoInfo(r, slack) ==
    /\ pc[r] = "info_info"
    /\ LET args == [channel |-> req[r].query.channel]
       IN  \/ \E ch \in slack.infoChannels :
                CallAndEnd(r, Returned("conversations.info", args, [channel |-> ch]),
                           <<InfoOk(ch)>>)
           \/ \E e \in slack.infoErrors :
                /\ CallAndGo(r, Threw("conversations.info", args, e), "info_list")
                /\ UNCHANGED channelId

\* The fallback: await conversations.list(...) and the find (lines 269-295).
ChannelInfoList(r, slack) ==
    /\ pc[r] = "info_list"
    /\ \/ LET all == workspace.public \o workspace.private
              found == FindNameOrId(all, req[r].query.channel)
          IN  CallAndEnd(r, Returned("conversations.list", InfoListArgs,
                                     [channels |-> all]),
                         IF found # Undefined THEN <<InfoOk(found)>>
                         ELSE <<InfoNotFound(req[r].query.channel)>>)
       \/ \E e \in slack.listErrors :
            CallAndEnd(r, Threw("conversations.list", InfoListArgs, e),
                       <<InfoFailed(e)>>)

(***************************************************************************)
(* POST /webhook                                                           *)
(***************************************************************************)
\* body.payload?.f
PayloadField(q, f) ==
    IF q.body.payload = Undefined THEN Undefined ELSE Get(q.body.payload, f)

WebhookText(q) == Or(q.body.text, PayloadField(q, "text"))
\* process.env.SLACK_DEFAULT_CHANNEL is q.env.
WebhookChannel(q) ==
    Or(Or(Or(q.body.channel, PayloadField(q, "channel")), q.env), Str(<<"#", "general">>))
WebhookUsername(q) ==
    Or(Or(q.body.username, PayloadField(q, "username")), Str(<<"webhook-bot">>))
WebhookIconUrl(q) == Or(q.body.icon_url, PayloadField(q, "icon_url"))
WebhookIconEmoji(q) == Or(q.body.icon_emoji, PayloadField(q, "icon_emoji"))
WebhookAttachments(q) == Or(q.body.attachments, PayloadField(q, "attachments"))

WebhookMissing ==
    Response(400, [error |-> Text("Missing required field: text"),
                   required_fields |-> <<"text">>,
                   optional_fields |-> <<"channel", "username", "icon_url",
                                         "icon_emoji", "attachments">>])

\* messagePayload (lines 318-332): the attachments array is stored under
\* the key blocks; the key attachments is never set.
WebhookPayload(q) ==
    [channel |-> Replace(WebhookChannel(q)),
     text |-> WebhookText(q),
     username |-> WebhookUsername(q),
     icon_url |-> IF Truthy(WebhookIconUrl(q)) THEN WebhookIconUrl(q) ELSE Undefined,
     icon_emoji |-> IF ~Truthy(WebhookIconUrl(q)) /\ Truthy(WebhookIconEmoji(q))
                    THEN WebhookIconEmoji(q) ELSE Undefined,
     blocks |-> IF Truthy(WebhookAttachments(q)) /\ IsArray(WebhookAttachments(q))
                THEN WebhookAttachments(q) ELSE Undefined,
     attachments |-> Undefined,
     thread_ts |-> Undefined]

WebhookOk(q, result) ==
    Response(200, [success |-> TRUE, message |-> "Message posted to Slack",
                   channel |-> WebhookChannel(q), ts |-> result.ts])

WebhookFailed(e) ==
    Response(500, [error |-> e.message,
                   details |-> "Failed to post webhook message to Slack"])

\* Entry to the await (lines 301-332).
WebhookReceive(r, q) ==
    /\ pc[r] = "idle"
    /\ q.endpoint = "webhook"
    /\ req' = [req EXCEPT ![r] = q]
    /\ calls' = [calls EXCEPT ![r] = <<>>]
    /\ UNCHANGED <<workspace, channelId>>
    /\ IF ~Truthy(WebhookText(q))
       THEN /\ resps' = [resps EXCEPT ![r] = <<WebhookMissing>>]
            /\ pc' = [pc EXCEPT ![r] = "done"]
       ELSE IF WebhookChannel(q).t # "string"
       THEN /\ resps' = [resps EXCEPT ![r] = <<WebhookFailed(TypeError)>>]
            /\ pc' = [pc EXCEPT ![r] = "done"]
       ELSE /\ resps' = [resps EXCEPT ![r] = <<>>]
            /\ pc' = [pc EXCEPT ![r] = "webhook_post"]

\* await chat.postMessage(messagePayload) and the response (lines 334-348).
WebhookPost(r, slack) ==
    /\ pc[r] = "webhook_post"
    /\ LET payload == WebhookPayload(req[r])
       IN  \/ \E result \in PostResults(payload) :
                CallAndEnd(r, Returned("chat.postMessage", payload, result),
                           <<WebhookOk(req[r], result)>>)
           \/ \E e \in slack.postErrors :
                CallAndEnd(r, Threw("chat.postMessage", payload, e),
                           <<WebhookFailed(e)>>)

(***************************************************************************)
(* The requests.  A request without a JSON body has every body field       *)
(* undefined (req.body || {}); query-string values are strings.            *)
(***************************************************************************)
GetBodies ==
    [channel : {Undefined, Num(5), Str(<<"#", "g">>), Str(<<"g">>),
                Str(<<"x">>), Str(<<"C", "1">>), Str(<<"#", "C", "1">>), Str(<<"#">>),
                Str(<<"G", "3">>), Str(<<"D", "2">>), Str(<<"U", "7">>),
                Obj([a |-> Num(1)])},
     limit : {Undefined, Num(0), Num(150), Num(0 - 3),
              Str(<<"0">>), Str(<<"a">>), Str(<<" ", "4", "2", "x">>),
              Str(<<"\t", "\\u00A0", "\\u2028", "0", "x", "1", "f">>), Arr(<<Num(7)>>),
              Obj([toString |-> Num(1)]), Arr(<<Obj([toString |-> Num(1)])>>),
              Obj([t |-> Num(1)])},
     cursor : {Undefined, Str(<<"n">>)}]
GetQueries ==
    {[channel |-> Undefined, limit |-> Undefined, cursor |-> Undefined],
     [channel |-> Str(<<"p">>), limit |-> Str(<<"5">>), cursor |-> Undefined]}
GetRequests ==
    {[endpoint |-> "get-messages", body |-> b, query |-> q] :
        b \in GetBodies, q \in GetQueries}

Attachment == Obj([title |-> Str(<<"t">>)])
Block == Obj([type |-> Str(<<"section">>)])

SendBodies ==
    [channel : {Undefined, Num(5), Str(<<"#", "g">>), Obj([a |-> Num(1)])},
     message : {Undefined, Str(<<>>), Str(<<"hi">>)},
     thread_ts : {Undefined},
     thread_timestamp : {Undefined, Str(<<"2.0">>)},
     blocks : {Undefined, Arr(<<Block>>), Block},
     attachments : {Undefined, Str(<<"x">>), Arr(<<Attachment>>)}]
SendQueries ==
    {[channel |-> Undefined, message |-> Undefined],
     [channel |-> Str(<<"C", "1">>), message |-> Str(<<"q">>)]}
SendRequests ==
    {[endpoint |-> "send-message", body |-> b, query |-> q] :
        b \in SendBodies, q \in SendQueries}

ListRequests == {[endpoint |-> "list-channels"]}

InfoRequests ==
    {[endpoint |-> "channel-info", query |-> [channel |-> c]] :
        c \in {Undefined, Str(<<>>), Str(<<"g">>), Str(<<"x">>), Str(<<"G", "4">>)}}

WebhookPayloads ==
    {Undefined, Str(<<"x">>),
     Obj([text |-> Str(<<"pt">>), channel |-> Str(<<"#", "p">>),
          username |-> Str(<<"bot">>), icon_emoji |-> Str(<<":x:">>),
          attachments |-> Arr(<<Attachment>>)])}
WebhookBodies ==
    [text : {Undefined, Str(<<"hi">>)},
     channel : {Undefined, Num(5), Str(<<"#", "a">>), Obj([a |-> Num(1)])},
     username : {Undefined},
     icon_url : {Undefined, Str(<<"http://i">>)},
     icon_emoji : {Undefined, Str(<<":w:">>)},
     attachments : {Undefined, Str(<<"x">>), Arr(<<Attachment>>), Attachment},
     payload : WebhookPayloads]
WebhookRequests ==
    {[endpoint |-> "webhook", body |-> b, env |-> e] :
        b \in WebhookBodies, e \in {Undefined, Str(<<"#", "o">>)}}

Requests ==
    GetRequests \cup SendRequests \cup ListRequests \cup InfoRequests
    \cup WebhookRequests

\* What Slack can answer to each call.
Slack ==
    [listErrors |-> ListErrors, infoErrors |-> InfoErrors,
     infoChannels |-> InfoChannels, joinErrors |-> JoinErrors,
     historyResults |-> HistoryResults, historyErrors |-> HistoryErrors,
     postErrors |-> PostErrors]

(***************************************************************************)
(* The specifications.                                                     *)
(***************************************************************************)
Init ==
    /\ workspace \in Workspaces
    /\ pc = [r \in Reqs |-> "idle"]
    /\ req = [r \in Reqs |-> NoReq]
    /\ channelId = [r \in Reqs |-> Undefined]
    /\ calls = [r \in Reqs |-> <<>>]
    /\ resps = [r \in Reqs |-> <<>>]

\* express calls the handler of the request's route as the request arrives,
\* whatever the other handlers are waiting for.
Receive(r, q) ==
    \/ GetMessagesReceive(r, q)
    \/ SendReceive(r, q)
    \/ ListChannelsReceive(r, q)
    \/ ChannelInfoReceive(r, q)
    \/ WebhookReceive(r, q)

\* A handler resumes after the await it stands at.
Resume(r, slack) ==
    \/ GetMessagesListPublic(r, slack)
    \/ GetMessagesListPrivate(r, slack)
    \/ GetMessagesInfo(r, slack)
    \/ GetMessagesJoin(r, slack)
    \/ GetMessagesHistory(r, slack)
    \/ SendPost(r, slack)
    \/ ListChannelsList(r, slack)
    \/ ChannelInfoInfo(r, slack)
    \/ ChannelInfoList(r, slack)
    \/ WebhookPost(r, slack)

\* The handler has ended: its request, locals and response are gone.
Finish(r) ==
    /\ pc[r] = "done"
    /\ pc' = [pc EXCEPT ![r] = "idle"]
    /\ req' = [req EXCEPT ![r] = NoReq]
    /\ channelId' = [channelId EXCEPT ![r] = Undefined]
    /\ calls' = [calls EXCEPT ![r] = <<>>]
    /\ resps' = [resps EXCEPT ![r] = <<>>]
    /\ UNCHANGED workspace

\* The server with the requests `traffic` arriving, at most as many in
\* flight as there are `slots`, and Slack answering as `slack` allows.  A
\* slot is free for a request when no handler occupies it.
Serve(slots, traffic, slack) ==
    \E r \in slots :
        \/ pc[r] = "idle" /\ \E q \in traffic : Receive(r, q)
        \/ Resume(r, slack)
        \/ Finish(r)

\* The requests that arrive in the specification of the whole server: one
\* or two of each route.
Traffic ==
    {q \in GetRequests :
        /\ q.body.channel \in {Str(<<"g">>), Str(<<"C", "1">>)}
        /\ q.body.limit = Undefined /\ q.body.cursor = Undefined
        /\ q.query.channel = Undefined}
    \cup {q \in SendRequests :
            /\ q.body.channel = Str(<<"#", "g">>) /\ q.body.message = Str(<<"hi">>)
            /\ q.body.thread_timestamp = Undefined /\ q.body.blocks = Undefined
            /\ q.body.attachments = Undefined /\ q.query.channel = Undefined}
    \cup ListRequests
    \cup {q \in InfoRequests : q.query.channel = Str(<<"g">>)}
    \cup {q \in WebhookRequests :
            /\ q.body.text = Str(<<"hi">>) /\ q.body.channel = Undefined
            /\ q.body.icon_url = Undefined /\ q.body.icon_emoji = Undefined
            /\ q.body.attachments = Undefined /\ q.body.payload = Undefined
            /\ q.env = Undefined}

\* What Slack answers in the specification of the whole server.
TrafficSlack ==
    [listErrors |-> {RequestError},
     infoErrors |-> {PlatformError("channel_not_found")},
     infoChannels |-> InfoChannels,
     joinErrors |-> {PlatformError("already_in_channel"),
                     PlatformError("not_in_channel")},
     historyResults |-> {h \in HistoryResults : h.messages = Undefined},
     historyErrors |-> {RequestError},
     postErrors |-> {RequestError}]

\* The whole server: requests of the five routes arrive at any time and
\* their handlers interleave at the awaits.
Next == Serve(Reqs, Traffic, TrafficSlack)

Spec == Init /\ [][Next]_vars

\* One handler followed from its request to its response, for every request
\* and every answer of Slack: the handlers share no variable, so what one
\* does is what it does alone.
NextAlone == Serve({1}, Requests, Slack)

SpecAlone == Init /\ [][NextAlone]_vars

(***************************************************************************)
(* Properties.  They read the requests, the upstream calls and the         *)
(* responses, and restate the request's fields on their own terms.         *)
(***************************************************************************)
IsGet(r) == req[r].endpoint = "get-messages"

\* A field the request does not carry (or carries empty).
Absent(x) == x = Undefined \/ x = Str(<<>>)

\* The channel a get-messages request supplies: the body's, else the query's.
Supplied(r) ==
    IF Absent(req[r].body.channel) THEN req[r].query.channel ELSE req[r].body.channel

HasToken(r) == IsGet(r) /\ Supplied(r).t = "string" /\ ~Absent(Supplied(r))

\* The supplied channel with its first '#' removed.
Token(r) ==
    LET s == Supplied(r).v
        H == {i \in 1..Len(s) : s[i] = "#"}
    IN  IF H = {} THEN Str(s)
        ELSE LET k == CHOOSE i \in H : \A j \in H : i <= j
             IN  Str(SubSeq(s, 1, k - 1) \o SubSeq(s, k + 1, Len(s)))

StartsLikeId(t) == Len(t.v) >= 1 /\ t.v[1] \in {"C", "G", "D", "U"}

\* Which upstream call c is: a listing is told apart by its types.
Kind(c) == IF c.method = "conversations.list" THEN c.args.types ELSE c.method

IsLookup(c) == Kind(c) \in {"public_channel", "private_channel", "conversations.info"}
IsJoin(c) == c.method = "conversations.join"
IsHistory(c) == c.method = "conversations.history"
Lookups(r) == SelectSeq(calls[r], IsLookup)
HasCall(r, P(_)) == \E i \in 1..Len(calls[r]) : P(calls[r][i])

Named(chs, t) == \E i \in 1..Len(chs) : chs[i].name = t

\* The error code of a thrown error, "" when it carries none.
ErrCode(e) == IF e.data = Undefined THEN "" ELSE e.data.error.v[1]

Answered(r, status) == Len(resps[r]) = 1 /\ resps[r][1].status = status

LookupKinds == <<"public_channel", "private_channel", "conversations.info">>

JoinOutcomes ==
    \A r \in Reqs : IsGet(r) =>
        \A i \in 1..Len(calls[r]) :
            LET c == calls[r][i]
            IN  /\ IsHistory(c) =>
                    /\ i > 1
                    /\ IsJoin(calls[r][i - 1])
                    /\ calls[r][i - 1].args.channel = c.args.channel
                /\ IsJoin(c) /\ ~c.ok /\ ErrCode(c.error) = "already_in_channel" =>
                    \/ pc[r] = "history" /\ resps[r] = <<>> /\ i = Len(calls[r])
                    \/ i < Len(calls[r]) /\ IsHistory(calls[r][i + 1])
                /\ IsJoin(c) /\ ~c.ok /\ ErrCode(c.error) = "missing_scope" =>
                    /\ pc[r] = "done"
                    /\ ~HasCall(r, IsHistory)
                    /\ Answered(r, 403)
                    /\ resps[r][1].body.error = <<"Bot missing required scope">>
                /\ IsJoin(c) /\ ~c.ok /\ ErrCode(c.error) = "channel_not_found" =>
                    /\ pc[r] = "done"
                    /\ ~HasCall(r, IsHistory)
                    /\ Answered(r, 404)
                    /\ resps[r][1].body.error = <<"Channel not found">>

\* A join that failed with already_in_channel, and the history read after it.
JoinOutcomesWitness ==
    \E r \in Reqs :
        /\ IsGet(r) /\ Answered(r, 200)
        /\ \E i \in 1..Len(calls[r]) :
            /\ IsJoin(calls[r][i]) /\ ~calls[r][i].ok
            /\ ErrCode(calls[r][i].error) = "already_in_channel"
        /\ HasCall(r, IsHistory)

\* The three lookups of r all failed to resolve its token.
LookupExhausted(r) ==
    /\ HasToken(r) /\ ~StartsLikeId(Token(r))
    /\ Len(Lookups(r)) = 3
    /\ Lookups(r)[1].ok /\ ~Named(Lookups(r)[1].value.channels, Token(r))
    /\ Lookups(r)[2].ok /\ ~Named(Lookups(r)[2].value.channels, Token(r))
    /\ ~Lookups(r)[3].ok

\* C3: when neither listing names the token and the info lookup fails, the
\* request ends with a 404 that reports the channel as not found and points
\* to /api/list-channels, and neither join nor history is called.
LookupNotFoundIs404 ==
    \A r \in Reqs : LookupExhausted(r) =>
        /\ pc[r] = "done"
        /\ Answered(r, 404)
        /\ resps[r][1].body.error = <<"Channel '", Token(r), "' not found">>
        /\ resps[r][1].body.solution
              = <<"Use /api/list-channels endpoint to get channel IDs">>
        /\ ~HasCall(r, IsJoin)
        /\ ~HasCall(r, IsHistory)

LookupNotFoundWitness ==
    \E r \in Reqs : LookupExhausted(r) /\ Supplied(r) = Str(<<"#">>)

CallKinds ==
    {"public_channel", "private_channel", "conversations.info",
     "conversations.join", "conversations.history"}

Count(r, kind) == Cardinality({i \in 1..Len(calls[r]) : Kind(calls[r][i]) = kind})

\* C4: a request makes each upstream call at most once, and every request
\* with a token that is not ID-shaped asks for the public listing itself,
\* whatever the other requests have resolved before or meanwhile.
NoRetryNoCache ==
    \A r \in Reqs : IsGet(r) =>
        /\ \A k \in CallKinds : Count(r, k) <= 1
        /\ HasToken(r) /\ ~StartsLikeId(Token(r)) /\ pc[r] # "list_public"
              => Count(r, "public_channel") = 1

\* One request has resolved a name and been answered; another request for
\* the same name, in flight meanwhile, has asked for the listing again.
NoRetryNoCacheWitness ==
    \E r1, r2 \in Reqs :
        /\ r1 # r2 /\ IsGet(r1) /\ IsGet(r2)
        /\ Supplied(r1) = Str(<<"g">>) /\ Supplied(r2) = Str(<<"g">>)
        /\ Answered(r1, 200)
        /\ pc[r2] = "join" /\ Count(r2, "public_channel") = 1

\* The IDs a token stands for: the public channel of that name, else the
\* private channel of that name, else the token itself when ID-shaped.
Targets(t) ==
    IF Named(workspace.public, t)
    THEN {workspace.public[i].id : i \in {j \in 1..Len(workspace.public) :
                                            workspace.public[j].name = t}}
    ELSE IF Named(workspace.private, t)
    THEN {workspace.private[i].id : i \in {j \in 1..Len(workspace.private) :
                                             workspace.private[j].name = t}}
    ELSE IF StartsLikeId(t) THEN {t}
    ELSE {}

\* C5: a request naming a listed channel ('n' or '#n') joins and reads the
\* channel with that channel's ID and answers with it as channel_id, just as
\* a request giving the ID does; a name in both listings stands for the
\* public channel.
NamesResolveToIds ==
    \A r \in Reqs : HasToken(r) =>
        \A x \in Targets(Token(r)) :
            /\ \A i \in 1..Len(calls[r]) :
                  IsJoin(calls[r][i]) \/ IsHistory(calls[r][i])
                      => calls[r][i].args.channel = x
            /\ \A i \in 1..Len(resps[r]) :
                  "channel_id" \in DOMAIN resps[r][i].body
                      => resps[r][i].body.channel_id = x
            /\ Answered(r, 200) =>
                  /\ HasCall(r, IsJoin) /\ HasCall(r, IsHistory)
                  /\ "channel_id" \in DOMAIN resps[r][1].body

\* '#g' names a channel of both listings and was answered with the public ID.
NamesResolveToIdsWitness ==
    \E r \in Reqs :
        /\ HasToken(r) /\ Supplied(r) = Str(<<"#", "g">>)
        /\ Named(workspace.public, Str(<<"g">>))
        /\ Named(workspace.private, Str(<<"g">>))
        /\ Answered(r, 200)
        /\ resps[r][1].body.channel_id = Str(<<"C", "1">>)

\* C6: every limit passed to conversations.history is an integer from 1 to
\* 100, and it is 10 when the request supplies no limit.
HistoryLimitInRange ==
    \A r \in Reqs : IsGet(r) =>
        \A i \in 1..Len(calls[r]) :
            IsHistory(calls[r][i]) =>
                /\ calls[r][i].args.limit.t = "number"
                /\ calls[r][i].args.limit.v \in 1..100
                /\ req[r].body.limit = Undefined /\ req[r].query.limit = Undefined
                      => calls[r][i].args.limit.v = 10

\* The required field of r's endpoint is missing.
RequiredMissing(r) ==
    LET q == req[r]
    IN  CASE q.endpoint = "send-message" ->
                \/ Absent(q.body.channel) /\ Absent(q.query.channel)
                \/ Absent(q.body.message) /\ Absent(q.query.message)
          [] q.endpoint = "get-messages" ->
                Absent(q.body.channel) /\ Absent(q.query.channel)
          [] q.endpoint = "channel-info" -> Absent(q.query.channel)
          [] q.endpoint = "webhook" ->
                /\ Absent(q.body.text)
                /\ (q.body.payload = Undefined \/ Absent(Get(q.body.payload, "text")))
          [] OTHER -> FALSE

\* C7: a request missing a required field is answered 400 and makes no
\* upstream call.
MissingFieldIs400 ==
    \A r \in Reqs : RequiredMissing(r) =>
        /\ pc[r] = "done"
        /\ calls[r] = <<>>
        /\ Answered(r, 400)

\* The attachments a webhook request supplies: the body's, else the payload's.
SuppliedAttachments(q) ==
    IF q.body.attachments # Undefined THEN q.body.attachments
    ELSE IF q.body.payload = Undefined THEN Undefined
    ELSE Get(q.body.payload, "attachments")

\* C8: a webhook request whose attachments are an array posts a message
\* carrying that array as its attachments.
WebhookForwardsAttachments ==
    \A r \in Reqs : req[r].endpoint = "webhook" =>
        \A i \in 1..Len(calls[r]) :
            /\ calls[r][i].method = "chat.postMessage"
            /\ SuppliedAttachments(req[r]).t = "array"
            => calls[r][i].args.attachments = SuppliedAttachments(req[r])

\* The status the outcome h of a history call alone calls for.
HistoryStatus(h) ==
    IF h.ok THEN 200
    ELSE IF ErrCode(h.error) = "not_in_channel" THEN 403
    ELSE IF ErrCode(h.error) = "channel_not_found" THEN 404
    ELSE 500

\* C9: a join failure whose code is none of missing_scope, not_in_channel
\* and channel_not_found (or that has no code) does not end the request:
\* the history of the same channel is read and its outcome alone decides the
\* response.  A join failing with not_in_channel ends the request with 403
\* 'Bot is not a member of this channel' and no history call.
JoinFailureTolerated ==
    \A r \in Reqs : IsGet(r) =>
        \A i \in 1..Len(calls[r]) :
            LET c == calls[r][i]
            IN  IsJoin(c) /\ ~c.ok =>
                  /\ ErrCode(c.error) \notin
                        {"missing_scope", "not_in_channel", "channel_not_found"} =>
                        \/ pc[r] = "history" /\ resps[r] = <<>> /\ i = Len(calls[r])
                        \/ /\ i + 1 = Len(calls[r])
                           /\ IsHistory(calls[r][i + 1])
                           /\ calls[r][i + 1].args.channel = c.args.channel
                           /\ pc[r] = "done"
                           /\ Answered(r, HistoryStatus(calls[r][i + 1]))
                  /\ ErrCode(c.error) = "not_in_channel" =>
                        /\ pc[r] = "done"
                        /\ ~HasCall(r, IsHistory)
                        /\ Answered(r, 403)
                        /\ resps[r][1].body.error
                              = <<"Bot is not a member of this channel">>

\* A join that failed without any error code, and the history read after it.
JoinFailureToleratedWitness ==
    \E r \in Reqs :
        /\ IsGet(r) /\ Answered(r, 200)
        /\ \E i \in 1..Len(calls[r]) :
            /\ IsJoin(calls[r][i]) /\ ~calls[r][i].ok
            /\ ErrCode(calls[r][i].error) = ""
            /\ i < Len(calls[r]) /\ calls[r][i + 1].ok

\* C10: no request is answered twice, a handler that has ended (every await
\* of its path having returned or thrown) has written its one response, and
\* a handler still waiting on an upstream call has written none.
ExactlyOneResponse ==
    \A r \in Reqs :
        /\ Len(resps[r]) <= 1
        /\ pc[r] = "done" => Len(resps[r]) = 1
        /\ pc[r] # "done" => Len(resps[r]) = 0

====
